---------------------------- MODULE Spec2Model ----------------------------
(***************************************************************************)
(* Model of edb/server/pgsql/compiler/dbobj.py: the synthesis of           *)
(* relational range expressions for object types and pointers, the         *)
(* overlay registry of the compilation environment, the set combinator     *)
(* (range_from_queryset) and the column resolver (get_column).             *)
(*                                                                         *)
(* pgast nodes are records tagged by "kind".  The compilation environment  *)
(* `env` is the pair of variables schema (an immutable snapshot) and       *)
(* rel_overlays.  env.aliases.get(hint) is an external allocator: an alias *)
(* is represented by the hint it was allocated from.  Every modelled type  *)
(* is its own material type, so objtype.material_type(schema) yields the   *)
(* type it is applied to.                                                  *)
(***************************************************************************)
EXTENDS Integers, Sequences, FiniteSets, TLC

VARIABLES schema, rel_overlays, call, ret

vars == <<schema, rel_overlays, call, ret>>

(***************************************************************************)
(* Bounds and input sets                                                   *)
(***************************************************************************)
\* overlay entries registered in one compilation unit (all entities together)
MaxOverlays == 2
\* overlay entries registered while object-type hierarchies are explored
MaxObjOverlays == 1
\* overlay entries registered for the one type of the deep-registry specification
MaxDeepOverlays == 4
\* length of the set-operation lists handed directly to range_from_queryset
MaxSetOps == 4

Types == {"Root", "Child1", "Child2", "Leaf"}
LinkName == "link"
Names == Types \cup {LinkName}
Ops == {"union", "replace"}
Rels == {"X", "Y", "Z", "W"}
PathIds == {"p1", "p2"}

\* inheritance edges drawn on: Root above Child1 and Child2, both above Leaf
Edges == {<<"Root", "Child1">>, <<"Root", "Child2">>,
          <<"Child1", "Leaf">>, <<"Child2", "Leaf">>}

(***************************************************************************)
(* pgast nodes                                                             *)
(***************************************************************************)
None == [kind |-> "None"]

\* the value of ret while a call has not returned
Pending == [kind |-> "pending"]

Raise(exc) == [kind |-> "raise", exc |-> exc]

Relation(schemaname, name, path_id) ==
    [kind |-> "Relation", schemaname |-> schemaname, name |-> name,
     path_id |-> path_id, is_distinct |-> FALSE]

CommonTableExpr(name) ==
    [kind |-> "CommonTableExpr", name |-> name,
     path_id |-> "None", is_distinct |-> FALSE]

RangeVar(relation, aliasname) ==
    [kind |-> "RangeVar", relation |-> relation, alias |-> aliasname]

RangeSubselect(subquery, aliasname) ==
    [kind |-> "RangeSubselect", subquery |-> subquery, alias |-> aliasname]

SelectStmt ==
    [kind |-> "SelectStmt", from_clause |-> <<>>, target_list |-> <<>>,
     all |-> FALSE, larg |-> None, op |-> "None", rarg |-> None,
     path_rvar_map |-> {}, path_bonds |-> {}, rptr_rvar |-> "None",
     path_id |-> "None", is_distinct |-> FALSE]

\* pathctx.put_path_value_rvar followed by pathctx.put_path_bond
put_path(qry, path_id, rvar) ==
    [qry EXCEPT !.path_rvar_map = @ \cup {<<path_id, "value", rvar.alias>>},
                !.path_bonds = @ \cup {path_id}]

(***************************************************************************)
(* Schema snapshot                                                         *)
(***************************************************************************)
ModuleOf(name) == "default"

children(objtype) == schema.children[objtype]

RECURSIVE descendants(_)
descendants(objtype) ==
    children(objtype) \cup UNION {descendants(c) : c \in children(objtype)}

\* iteration of a Python set: the members in the order `order` lists them
RECURSIVE SetIter(_, _)
SetIter(S, order) ==
    IF order = <<>> THEN <<>>
    ELSE IF Head(order) \in S THEN <<Head(order)>> \o SetIter(S, Tail(order))
    ELSE SetIter(S, Tail(order))

(***************************************************************************)
(* range_from_queryset                                                     *)
(***************************************************************************)
\* chain_step combining every branch with `union`, whatever the pair says
chain_step_always_union(qry, entry) ==
    [SelectStmt EXCEPT !.all = TRUE,
                       !.larg = [qry EXCEPT !.op = "union", !.rarg = entry[2]]]

\* one iteration of the loop: set op and rarg on qry, wrap it as the next larg
chain_step(qry, entry) ==
    [SelectStmt EXCEPT !.all = TRUE,
                       !.larg = [qry EXCEPT !.op = entry[1], !.rarg = entry[2]]]

RECURSIVE chain(_, _)
chain(qry, rest) ==
    IF rest = <<>> THEN qry ELSE chain(chain_step(qry, Head(rest)), Tail(rest))

range_from_queryset(set_ops, stype) ==
    IF Len(set_ops) > 1
    THEN LET qry == chain([SelectStmt EXCEPT !.all = TRUE,
                                             !.larg = set_ops[1][2]],
                          Tail(set_ops))
         IN RangeSubselect(qry.larg, stype)
    ELSE IF Len(set_ops) = 0
         THEN Raise("IndexError")
         ELSE set_ops[1][2].from_clause[1]

(***************************************************************************)
(* range_for_material_objtype                                              *)
(***************************************************************************)
\* overlay_step with `replace` keeping the first branch of the list
overlay_step_keeps_base(set_ops, entry, path_id) ==
    LET rvar == RangeVar(entry[2], entry[2].name)
        qry == put_path([SelectStmt EXCEPT !.from_clause = <<rvar>>],
                        path_id, rvar)
    IN IF entry[1] = "replace"
       THEN <<set_ops[1], <<"union", qry>>>>
       ELSE Append(set_ops, <<entry[1], qry>>)

\* one iteration of the loop over the overlays of a type
overlay_step(set_ops, entry, path_id) ==
    LET rvar == RangeVar(entry[2], entry[2].name)
        qry == put_path([SelectStmt EXCEPT !.from_clause = <<rvar>>],
                        path_id, rvar)
    IN IF entry[1] = "replace"
       THEN <<<<"union", qry>>>>
       ELSE Append(set_ops, <<entry[1], qry>>)

RECURSIVE overlay_loop(_, _, _)
overlay_loop(set_ops, overlays, path_id) ==
    IF overlays = <<>> THEN set_ops
    ELSE overlay_loop(overlay_step(set_ops, Head(overlays), path_id),
                      Tail(overlays), path_id)

material_rvar(objtype, path_id) ==
    LET table_schema_name ==
            IF ModuleOf(objtype) = "schema" THEN "edgedbss"
            ELSE "edgedb_" \o ModuleOf(objtype)
    IN RangeVar(Relation(table_schema_name, objtype, path_id), objtype)

\* range_for_material_objtype splicing overlays whatever include_overlays says
range_for_material_objtype_always_overlays(objtype, path_id, include_overlays) ==
    LET rvar == material_rvar(objtype, path_id)
        overlays == rel_overlays[objtype]
    IN IF overlays # <<>>
       THEN LET qry == put_path([SelectStmt EXCEPT !.from_clause = <<rvar>>],
                                path_id, rvar)
            IN range_from_queryset(
                   overlay_loop(<<<<"union", qry>>>>, overlays, path_id),
                   objtype)
       ELSE rvar

range_for_material_objtype(objtype, path_id, include_overlays) ==
    LET rvar == material_rvar(objtype, path_id)
        overlays == rel_overlays[objtype]
    IN IF overlays # <<>> /\ include_overlays
       THEN LET qry == put_path([SelectStmt EXCEPT !.from_clause = <<rvar>>],
                                path_id, rvar)
            IN range_from_queryset(
                   overlay_loop(<<<<"union", qry>>>>, overlays, path_id),
                   objtype)
       ELSE rvar

(***************************************************************************)
(* range_for_objtype                                                       *)
(***************************************************************************)
\* mark_query applied to composed ranges only
mark_query_composed_only(rvar, path_id) ==
    IF rvar.kind = "RangeSubselect"
    THEN [rvar EXCEPT !.subquery.is_distinct = TRUE,
                      !.subquery.path_id = path_id]
    ELSE rvar

\* rvar.query.is_distinct = True; rvar.query.path_id = path_id
mark_query(rvar, path_id) ==
    IF rvar.kind = "RangeSubselect"
    THEN [rvar EXCEPT !.subquery.is_distinct = TRUE,
                      !.subquery.path_id = path_id]
    ELSE [rvar EXCEPT !.relation.is_distinct = TRUE,
                      !.relation.path_id = path_id]

child_branch(c_rvar, path_id) ==
    <<"union", put_path([SelectStmt EXCEPT !.from_clause = <<c_rvar>>],
                        path_id, c_rvar)>>

RECURSIVE range_for_objtype(_, _, _, _)
range_for_objtype(objtype, path_id, include_overlays, order) ==
    LET rvar ==
          IF objtype \notin schema.virtual
          THEN range_for_material_objtype(objtype, path_id, include_overlays)
          ELSE LET kids == SetIter(children(objtype), order)
                   c_rvars == [i \in DOMAIN kids |->
                                  range_for_objtype(kids[i], path_id,
                                                    include_overlays, order)]
               IN IF \E i \in DOMAIN kids : c_rvars[i].kind = "raise"
                  THEN Raise("IndexError")
                  ELSE range_from_queryset(
                           [i \in DOMAIN kids |->
                               child_branch(c_rvars[i], path_id)],
                           objtype)
    IN IF rvar.kind = "raise" THEN rvar ELSE mark_query(rvar, path_id)

(***************************************************************************)
(* table_from_ptrcls, range_for_ptrcls                                     *)
(***************************************************************************)
\* source.getptr(schema, linkname).material_type(schema); "None" is KeyError
getptr(source) == schema.ptr[source]

table_from_ptrcls(src_ptrcls) ==
    LET table_schema_name ==
            IF ModuleOf(LinkName) = "schema" THEN "edgedbss"
            ELSE "edgedb_" \o ModuleOf(LinkName)
    IN RangeVar(Relation(table_schema_name, src_ptrcls \o "." \o LinkName,
                         "None"),
                LinkName)

ptr_cols == <<"std::source", "std::target">>

ptr_base_qry(table) ==
    [SelectStmt EXCEPT
        !.from_clause = <<table>>,
        !.rptr_rvar = table.alias,
        !.target_list = [i \in DOMAIN ptr_cols |->
                            [val |-> <<table.alias, ptr_cols[i]>>,
                             name |-> ptr_cols[i]]]]

ptr_overlay_branch(entry) ==
    LET rvar == RangeVar(entry[2], entry[2].name)
    IN <<entry[1],
         [SelectStmt EXCEPT
             !.from_clause = <<rvar>>,
             !.target_list = [i \in DOMAIN ptr_cols |->
                                 [val |-> <<ptr_cols[i]>>, name |-> "None"]]]>>

ptr_overlay_branches(include_overlays) ==
    LET overlays == rel_overlays[LinkName]
    IN IF overlays # <<>> /\ include_overlays
       THEN [i \in DOMAIN overlays |-> ptr_overlay_branch(overlays[i])]
       ELSE <<>>

\* ptr_step without the check for a storage-owning pointer seen before
ptr_step_no_dedup(st, source, include_overlays) ==
    LET src_ptrcls == getptr(source)
    IN IF src_ptrcls = "None" THEN st
       ELSE [set_ops |-> Append(st.set_ops,
                                <<"union",
                                  ptr_base_qry(table_from_ptrcls(src_ptrcls))>>)
                         \o ptr_overlay_branches(include_overlays),
             ptrclses |-> st.ptrclses \cup {src_ptrcls}]

\* one iteration of the loop over the declaring type and its descendants;
\* st is the pair of loop variables set_ops and ptrclses
ptr_step(st, source, include_overlays) ==
    LET src_ptrcls == getptr(source)
    IN IF src_ptrcls = "None" THEN st
       ELSE IF src_ptrcls \in st.ptrclses THEN st
       ELSE [set_ops |-> Append(st.set_ops,
                                <<"union",
                                  ptr_base_qry(table_from_ptrcls(src_ptrcls))>>)
                         \o ptr_overlay_branches(include_overlays),
             ptrclses |-> st.ptrclses \cup {src_ptrcls}]

RECURSIVE ptr_loop(_, _, _)
ptr_loop(st, sources, include_overlays) ==
    IF sources = <<>> THEN st
    ELSE ptr_loop(ptr_step(st, Head(sources), include_overlays),
                  Tail(sources), include_overlays)

ptr_set_ops(endpoint, include_overlays, order) ==
    ptr_loop([set_ops |-> <<>>, ptrclses |-> {}],
             SetIter({endpoint} \cup descendants(endpoint), order),
             include_overlays).set_ops

range_for_ptrcls(endpoint, include_overlays, order) ==
    range_from_queryset(ptr_set_ops(endpoint, include_overlays, order),
                        LinkName)

(***************************************************************************)
(* get_column                                                              *)
(***************************************************************************)
ColumnRef(name, nullable, optional) ==
    [kind |-> "ColumnRef", name |-> name,
     nullable |-> nullable, optional |-> optional]

\* get_column defaulting to nullable and to the optional parameter for a
\* supplied reference too
get_column_ignores_reference(rvar, colspec, optional, nullable) ==
    LET colname == IF colspec.kind = "ColumnRef"
                   THEN colspec.name[Len(colspec.name)] ELSE colspec.value
        name == IF rvar.kind = "None" THEN <<colname>>
                ELSE <<rvar.alias, colname>>
    IN ColumnRef(name, IF nullable # "None" THEN nullable ELSE "True",
                 optional)

\* colspec is a ColumnRef or a bare name [kind |-> "str", value |-> ...];
\* nullable is "None", "True" or "False"
get_column(rvar, colspec, optional, nullable) ==
    LET isref == colspec.kind = "ColumnRef"
        colname == IF isref THEN colspec.name[Len(colspec.name)]
                   ELSE colspec.value
        nullable1 == IF nullable # "None" THEN nullable
                     ELSE IF isref THEN colspec.nullable ELSE "True"
        optional1 == IF isref THEN colspec.optional ELSE optional
        name == IF rvar.kind = "None" THEN <<colname>>
                ELSE <<rvar.alias, colname>>
    IN ColumnRef(name, nullable1, optional1)

(***************************************************************************)
(* add_rel_overlay                                                         *)
(***************************************************************************)
\* add_rel_overlay with `replace` resetting the list at registration
add_rel_overlay_resets(stype, op, rel) ==
    [rel_overlays EXCEPT
        ![stype] = IF op = "replace" THEN <<<<op, rel>>>>
                   ELSE Append(@, <<op, rel>>)]

add_rel_overlay(stype, op, rel) ==
    [rel_overlays EXCEPT ![stype] = Append(@, <<op, rel>>)]

(***************************************************************************)
(* Schema snapshots a compilation may run against                          *)
(***************************************************************************)
Hierarchies ==
    {[t \in Types |-> {c \in Types : <<t, c>> \in E}] : E \in SUBSET Edges}

RECURSIVE DescIn(_, _)
DescIn(ch, t) == ch[t] \cup UNION {DescIn(ch, c) : c \in ch[t]}

\* a type has no pointer named LinkName, owns the storage of its pointer, or
\* inherits the pointer of an ancestor that owns its storage
PtrMaps(ch) ==
    {p \in [Types -> Types \cup {"None"}] :
        \A t \in Types :
            \/ p[t] \in {"None", t}
            \/ p[t] \in Types /\ t \in DescIn(ch, p[t]) /\ p[p[t]] = p[t]}

NoPtr == [t \in Types |-> "None"]

\* hierarchies of concrete and virtual types
ObjSchemas ==
    {[children |-> ch, virtual |-> v, ptr |-> NoPtr] :
        ch \in Hierarchies, v \in SUBSET Types}

Diamond == [t \in Types |-> {c \in Types : <<t, c>> \in Edges}]

\* the full hierarchy of concrete types, with every placement of the storage
\* of the pointers named LinkName
PtrSchemas ==
    {[children |-> Diamond, virtual |-> {}, ptr |-> p] : p \in PtrMaps(Diamond)}

FlatSchema ==
    [children |-> [t \in Types |-> {}], virtual |-> {}, ptr |-> NoPtr]

\* hierarchies that extend the chain Root, Child1, Leaf; a type is virtual
\* exactly when it has children; the pointer is declared on Root and inherited
\* unmodified by its descendants
MainSchemas ==
    {[children |-> ch, virtual |-> {t \in Types : ch[t] # {}},
      ptr |-> [t \in Types |->
                  IF t \in DescIn(ch, "Root") \cup {"Root"} THEN "Root"
                  ELSE t]] :
        ch \in {h \in Hierarchies :
                   "Child1" \in h["Root"] /\ "Leaf" \in h["Child1"]}}

\* the orders in which a Python set of types may be iterated
Orders ==
    [S \in SUBSET Types |->
        {o \in [1..Cardinality(S) -> S] :
            \A i, j \in DOMAIN o : i # j => o[i] # o[j]}]

TotalOverlays == LET n[S \in SUBSET Names] ==
                         IF S = {} THEN 0
                         ELSE LET k == CHOOSE k \in S : TRUE
                              IN Len(rel_overlays[k]) + n[S \ {k}]
                 IN n[Names]

(***************************************************************************)
(* Operations                                                              *)
(***************************************************************************)
AddRelOverlay(keys, rels, limit) ==
    \E stype \in keys, op \in Ops, rel \in rels :
        /\ TotalOverlays < limit
        /\ rel_overlays' = add_rel_overlay(stype, op, CommonTableExpr(rel))
        /\ call' = [fn |-> "add_rel_overlay", stype |-> stype,
                    op |-> op, rel |-> rel]
        /\ ret' = None
        /\ UNCHANGED schema

RangeForMaterialObjtype(types, pids) ==
    \E objtype \in types, path_id \in pids, include_overlays \in BOOLEAN :
        /\ call' = [fn |-> "range_for_material_objtype", objtype |-> objtype,
                    path_id |-> path_id,
                    include_overlays |-> include_overlays]
        /\ ret' = range_for_material_objtype(objtype, path_id,
                                             include_overlays)
        /\ UNCHANGED <<schema, rel_overlays>>

RangeForObjtype(pids) ==
    \E objtype \in Types, path_id \in pids, include_overlays \in BOOLEAN :
        \E order \in Orders[descendants(objtype)] :
            /\ call' = [fn |-> "range_for_objtype", objtype |-> objtype,
                        path_id |-> path_id,
                        include_overlays |-> include_overlays]
            /\ ret' = range_for_objtype(objtype, path_id, include_overlays,
                                        order)
            /\ UNCHANGED <<schema, rel_overlays>>

\* ptrcls is the pointer named LinkName that endpoint carries
RangeForPtrcls ==
    \E endpoint \in Types, include_overlays \in BOOLEAN :
        \E order \in Orders[{endpoint} \cup descendants(endpoint)] :
            /\ getptr(endpoint) # "None"
            /\ call' = [fn |-> "range_for_ptrcls", endpoint |-> endpoint,
                        include_overlays |-> include_overlays]
            /\ ret' = range_for_ptrcls(endpoint, include_overlays, order)
            /\ UNCHANGED <<schema, rel_overlays>>

LeafQueries ==
    {[SelectStmt EXCEPT !.from_clause = <<RangeVar(CommonTableExpr(r), r)>>] :
        r \in {"X", "Y", "Z"}}

SetOpLists ==
    UNION {[1..n -> Ops \X LeafQueries] : n \in 0..MaxSetOps}

\* the pending call of Init returns
RangeFromQueryset ==
    /\ call.fn = "range_from_queryset"
    /\ ret = Pending
    /\ ret' = range_from_queryset(call.set_ops, call.stype)
    /\ UNCHANGED <<schema, rel_overlays, call>>

ColNames == {"id", "std::target"}
Tri == {"None", "True", "False"}

ColSpecs ==
    {[kind |-> "str", value |-> c] : c \in ColNames}
    \cup {ColumnRef(n, nl, o) :
            n \in {<<c>> : c \in ColNames} \cup {<<"t", c>> : c \in ColNames},
            nl \in {"True", "False"}, o \in BOOLEAN}

\* the pending call of Init returns
GetColumn ==
    /\ call.fn = "get_column"
    /\ ret = Pending
    /\ ret' = get_column(call.rvar, call.colspec, call.optional, call.nullable)
    /\ UNCHANGED <<schema, rel_overlays, call>>

(***************************************************************************)
(* Specifications                                                          *)
(***************************************************************************)
InitEnv(schemas) ==
    /\ schema \in schemas
    /\ rel_overlays = [n \in Names |-> <<>>]
    /\ call = [fn |-> "none"]
    /\ ret = None

\* one compilation unit: registrations interleaved with every synthesis call
Init == InitEnv(MainSchemas)

Next ==
    \/ AddRelOverlay({"Root", "Leaf", LinkName}, {"X"}, MaxOverlays)
    \/ RangeForMaterialObjtype(Types, {"p1"})
    \/ RangeForObjtype({"p1"})
    \/ RangeForPtrcls

Spec == Init /\ [][Next]_vars

\* object types over every hierarchy and every choice of virtual types
InitObj == InitEnv(ObjSchemas)

NextObj ==
    \/ AddRelOverlay({"Child1", "Leaf"}, {"X"}, MaxObjOverlays)
    \/ RangeForObjtype(PathIds)

SpecObj == InitObj /\ [][NextObj]_vars

\* pointers over every hierarchy and every placement of pointer storage
InitPtr == InitEnv(PtrSchemas)

NextPtr ==
    \/ AddRelOverlay({LinkName}, {"X"}, MaxOverlays)
    \/ RangeForPtrcls

SpecPtr == InitPtr /\ [][NextPtr]_vars

\* one concrete type with a deep overlay list
InitDeep == InitEnv({FlatSchema})

NextDeep ==
    \/ AddRelOverlay({"Root"}, Rels, MaxDeepOverlays)
    \/ RangeForMaterialObjtype({"Root"}, PathIds)

SpecDeep == InitDeep /\ [][NextDeep]_vars

\* the set combinator applied to arbitrary set-operation lists
InitCombinator ==
    /\ schema = FlatSchema
    /\ rel_overlays = [n \in Names |-> <<>>]
    /\ call \in {[fn |-> "range_from_queryset", set_ops |-> set_ops,
                   stype |-> stype] :
                     set_ops \in SetOpLists, stype \in {"Root", LinkName}}
    /\ ret = Pending

NextCombinator == RangeFromQueryset

SpecCombinator == InitCombinator /\ [][NextCombinator]_vars

\* the column resolver applied to arbitrary column specifications
InitColumn ==
    /\ schema = FlatSchema
    /\ rel_overlays = [n \in Names |-> <<>>]
    /\ call \in {[fn |-> "get_column", rvar |-> rvar, colspec |-> colspec,
                   optional |-> optional, nullable |-> nullable] :
                     rvar \in {None, material_rvar("Root", "p1")},
                     colspec \in ColSpecs,
                     optional \in BOOLEAN, nullable \in Tri}
    /\ ret = Pending

NextColumn == GetColumn

SpecColumn == InitColumn /\ [][NextColumn]_vars

(***************************************************************************)
(* Reading a synthesized range                                             *)
(***************************************************************************)
\* the branches of a set-operation tree, left to right
RECURSIVE Leaves(_)
Leaves(q) ==
    IF q.larg.kind = "None" THEN <<q>> ELSE Leaves(q.larg) \o Leaves(q.rarg)

\* the operations of the nodes of a set-operation tree, innermost first
RECURSIVE NodeOps(_)
NodeOps(q) ==
    IF q.larg.kind = "None" THEN <<>>
    ELSE NodeOps(q.larg) \o <<q.op>> \o NodeOps(q.rarg)

\* the range variables the branches of a returned range select from
BranchRvars(rvar) ==
    IF rvar.kind = "RangeSubselect"
    THEN LET ls == Leaves(rvar.subquery)
         IN [i \in DOMAIN ls |-> ls[i].from_clause[1]]
    ELSE <<rvar>>

BranchNames(rvar) ==
    LET bs == BranchRvars(rvar) IN [i \in DOMAIN bs |-> bs[i].relation.name]

BaseBranches(rvar) ==
    LET bs == BranchRvars(rvar)
    IN {i \in DOMAIN bs : bs[i].relation.kind = "Relation"}

\* the storage tables selected from anywhere inside a range, left to right
RECURSIVE TablesOfRvar(_), TablesOfQuery(_)
TablesOfRvar(rvar) ==
    IF rvar.kind = "RangeSubselect" THEN TablesOfQuery(rvar.subquery)
    ELSE IF rvar.relation.kind = "Relation" THEN <<rvar.relation.name>>
    ELSE <<>>
TablesOfQuery(q) ==
    IF q.larg.kind = "None"
    THEN IF q.from_clause = <<>> THEN <<>> ELSE TablesOfRvar(q.from_clause[1])
    ELSE TablesOfQuery(q.larg) \o TablesOfQuery(q.rarg)

Count(x, seq) == Cardinality({i \in DOMAIN seq : seq[i] = x})

Query(rvar) ==
    IF rvar.kind = "RangeSubselect" THEN rvar.subquery ELSE rvar.relation

Returned == ret.kind \notin {"None", "pending", "raise"}

\* position of the last `replace` entry of an overlay list, 0 when none
LastReplace(overlays) ==
    LET R == {i \in DOMAIN overlays : overlays[i][1] = "replace"}
    IN IF R = {} THEN 0 ELSE CHOOSE i \in R : \A j \in R : j <= i

OverlayNames(overlays) == [i \in DOMAIN overlays |-> overlays[i][2].name]

ExampleOverlays ==
    <<<<"union", CommonTableExpr("X")>>, <<"union", CommonTableExpr("Y")>>,
      <<"replace", CommonTableExpr("Z")>>, <<"union", CommonTableExpr("W")>>>>

MaterialCall(composed) ==
    /\ call.fn = "range_for_material_objtype"
    /\ composed = (call.include_overlays /\ rel_overlays[call.objtype] # <<>>)

(***************************************************************************)
(* Claims                                                                  *)
(***************************************************************************)
\* C1 as stated: with overlays included, the branch list of a concrete type
\* starts with the type's base storage branch whatever overlays are
\* registered, and for [union X, union Y, replace Z, union W] it is
\* [base, Z, W].
C1_BaseAlwaysFirst ==
    MaterialCall(TRUE) =>
        /\ BranchRvars(ret)[1].relation.kind = "Relation"
        /\ BranchNames(ret)[1] = call.objtype
        /\ rel_overlays[call.objtype] = ExampleOverlays =>
               BranchNames(ret) = <<call.objtype, "Z", "W">>

\* C1 amended: the branch list is the base branch followed by every overlay
\* when no `replace` entry is registered; otherwise it is the overlays from
\* the last `replace` entry on, the base branch discarded with the rest.  For
\* [union X, union Y, replace Z, union W] it is [Z, W].
C1_ReplaceDiscardsBase ==
    MaterialCall(TRUE) =>
        LET overlays == rel_overlays[call.objtype]
            k == LastReplace(overlays)
        IN /\ k = 0 =>
                 BranchNames(ret) = <<call.objtype>> \o OverlayNames(overlays)
           /\ k > 0 =>
                 BranchNames(ret) =
                     SubSeq(OverlayNames(overlays), k, Len(overlays))
           /\ overlays = ExampleOverlays => BranchNames(ret) = <<"Z", "W">>

C1_Witness ==
    /\ MaterialCall(TRUE)
    /\ rel_overlays[call.objtype] = ExampleOverlays
    /\ BranchNames(ret) = <<"Z", "W">>

\* C2, its uniqueness half (the claim is this together with: no concrete
\* descendant is missing): in the range of a virtual type no concrete
\* descendant's storage table is a branch twice, even when the type is
\* reachable through more than one inheritance path.
C2_NoneTwice ==
    (call.fn = "range_for_objtype" /\ call.objtype \in schema.virtual
        /\ Returned) =>
        \A c \in descendants(call.objtype) \ schema.virtual :
            Count(c, TablesOfRvar(ret)) <= 1

\* C3 as stated: range_for_objtype on a virtual type without children fails
\* with the dedicated empty-composition error.
C3_EmptyCompositionError ==
    (call.fn = "range_for_objtype" /\ call.objtype \in schema.virtual
        /\ children(call.objtype) = {}) =>
        ret = Raise("EmptyCompositionError")

\* C4: the pointer range has one base branch for each distinct storage-owning
\* pointer found on the declaring type and its descendants, and no other.
C4_OneBranchPerMaterialPointer ==
    call.fn = "range_for_ptrcls" =>
        LET sources == {call.endpoint} \cup descendants(call.endpoint)
            owners == {schema.ptr[s] : s \in sources} \ {"None"}
        IN /\ Returned
           /\ Cardinality(BaseBranches(ret)) = Cardinality(owners)
           /\ \A o \in owners :
                  Count(o \o "." \o LinkName, BranchNames(ret)) = 1

C4_Witness ==
    /\ call.fn = "range_for_ptrcls"
    /\ call.endpoint = "Root"
    /\ schema.ptr = [t \in Types |-> IF t = "Leaf" THEN "None" ELSE "Root"]
    /\ Cardinality(BaseBranches(ret)) = 1

\* C5: a concrete type with no overlay registered, or synthesized with
\* include_overlays false, yields the direct table reference aliased from the
\* type's short name; a subquery range is returned only when at least two
\* branches are composed.
C5_DirectTableReference ==
    /\ MaterialCall(FALSE) =>
           /\ ret.kind = "RangeVar"
           /\ ret.relation.kind = "Relation"
           /\ ret.relation.name = call.objtype
           /\ ret.relation.path_id = call.path_id
           /\ ret.alias = call.objtype
    /\ (call.fn = "range_for_material_objtype" /\ ret.kind = "RangeSubselect")
           => LET overlays == rel_overlays[call.objtype]
                  k == LastReplace(overlays)
              IN /\ call.include_overlays
                 /\ Len(Leaves(ret.subquery)) >= 2
                 /\ IF k = 0 THEN Len(overlays) >= 1 ELSE Len(overlays) > k

C5_Witness ==
    /\ MaterialCall(FALSE)
    /\ rel_overlays[call.objtype] # <<>>
    /\ ret.kind = "RangeVar"
    /\ ret.relation.name = call.objtype

\* C6: for n >= 2 pairs range_from_queryset builds a left-deep chain whose
\* leaves are the input relations in input order and whose i-th relation is
\* the right operand of a node carrying the i-th pair's operation; the first
\* pair's operation is not used.
C6_LeftDeepChain ==
    (call.fn = "range_from_queryset" /\ ret # Pending
        /\ Len(call.set_ops) >= 2) =>
        LET n == Len(call.set_ops)
            spine[i \in 1..n] ==
                IF i = n THEN ret.subquery ELSE spine[i + 1].larg
        IN /\ ret.kind = "RangeSubselect"
           /\ Leaves(ret.subquery) = [i \in 1..n |-> call.set_ops[i][2]]
           /\ spine[1] = call.set_ops[1][2]
           /\ \A i \in 2..n : /\ spine[i].rarg = call.set_ops[i][2]
                              /\ spine[i].op = call.set_ops[i][1]
           /\ \A op \in Ops :
                  range_from_queryset(
                      [call.set_ops EXCEPT ![1] = <<op, call.set_ops[1][2]>>],
                      call.stype) = ret

C6_Witness ==
    /\ call.fn = "range_from_queryset"
    /\ Len(call.set_ops) = 3
    /\ call.set_ops[1][1] = "replace"
    /\ call.set_ops[3][1] = "replace"
    /\ ret.kind = "RangeSubselect"
    /\ NodeOps(ret.subquery) = <<call.set_ops[2][1], "replace">>

\* C7: a registration appends its pair to the list of the entity it names,
\* whatever the operation and whatever the list holds, and leaves every other
\* list as it is; no synthesis call changes any list.
C7_RegistryAppendOnly ==
    [][IF call'.fn = "add_rel_overlay"
       THEN /\ rel_overlays'[call'.stype] =
                   rel_overlays[call'.stype]
                       \o <<<<call'.op, CommonTableExpr(call'.rel)>>>>
            /\ \A n \in Names \ {call'.stype} :
                   rel_overlays'[n] = rel_overlays[n]
       ELSE rel_overlays' = rel_overlays]_vars

C7_Witness ==
    /\ call.fn = "range_for_objtype"
    /\ call.objtype = "Leaf"
    /\ call.include_overlays
    /\ rel_overlays["Leaf"] = <<<<"replace", CommonTableExpr("X")>>,
                                <<"replace", CommonTableExpr("X")>>>>
    /\ rel_overlays["Root"] = <<>>

\* C8: every range returned by range_for_objtype is marked distinct and
\* carries the caller's path identifier.
C8_DistinctAndStamped ==
    (call.fn = "range_for_objtype" /\ Returned) =>
        /\ Query(ret).is_distinct
        /\ Query(ret).path_id = call.path_id

C8_Witness ==
    /\ call.fn = "range_for_objtype"
    /\ call.objtype \in schema.virtual
    /\ Cardinality(children(call.objtype)) = 1
    /\ call.path_id = "p2"
    /\ ret.kind = "RangeVar"
    /\ Query(ret).is_distinct

\* C9 as stated: in a pointer range synthesized with overlays included a
\* `replace` entry resets the overlay branches accumulated before it and is
\* combined as a `union` branch, so `replace` is never the operation of a
\* composed node.
C9_ReplaceResetsInPointerRange ==
    (call.fn = "range_for_ptrcls" /\ call.include_overlays
        /\ ret.kind = "RangeSubselect") =>
        LET overlays == rel_overlays[LinkName]
            k == LastReplace(overlays)
            ops == NodeOps(ret.subquery)
        IN /\ \A i \in DOMAIN ops : ops[i] # "replace"
           /\ k > 0 => Len(BranchRvars(ret)) - Cardinality(BaseBranches(ret))
                           <= Cardinality(BaseBranches(ret))
                                  * (Len(overlays) - k + 1)

\* C10: get_column's nullable flag is the explicit argument when one is
\* given, else the supplied reference's own flag, else nullable; its optional
\* flag is the supplied reference's, the optional parameter governing only a
\* bare name.
C10_NullableAndOptional ==
    (call.fn = "get_column" /\ ret # Pending) =>
        LET bare == call.colspec.kind = "str"
        IN /\ ret.kind = "ColumnRef"
           /\ (bare /\ call.nullable = "None") => ret.nullable = "True"
           /\ call.nullable # "None" => ret.nullable = call.nullable
           /\ (~bare /\ call.nullable = "None") =>
                  ret.nullable = call.colspec.nullable
           /\ ~bare => ret.optional = call.colspec.optional
           /\ bare => ret.optional = call.optional

C10_Witness ==
    /\ call.fn = "get_column"
    /\ call.colspec.kind = "ColumnRef"
    /\ call.colspec.nullable = "False"
    /\ call.colspec.optional
    /\ ~call.optional
    /\ call.nullable = "None"
    /\ ret.kind = "ColumnRef"
    /\ ret.nullable = "False"
    /\ ret.optional

=============================================================================
